---------------------------- MODULE Spec2Model ----------------------------
(***************************************************************************)
(* A model of the query-routing and multi-corpus retrieval pipeline of the *)
(* legal advisor (src/app).  Text is modelled as a sequence of characters  *)
(* (one-character strings), so that lower-casing, substring search and the *)
(* regular expressions of the router are computed on characters, as the    *)
(* Python code computes them.  Characters outside ASCII are named by their *)
(* code point ("U+00A7" is the section sign).                              *)
(***************************************************************************)
EXTENDS Naturals, Sequences, FiniteSets, TLC

(***************************************************************************)
(* Bounds of the model.                                                    *)
(***************************************************************************)
\* longest query of the router specification, in vocabulary words
MaxWords == 3
\* most hits one index query returns in the model (top_k is 3, 4 or 5)
MaxHits == 2
\* longest offense list handed to expand_offenses
MaxOffenses == 2

(***************************************************************************)
(* Program constants.                                                      *)
(***************************************************************************)
\* def retrieve_direct(query_text, n_results = 5)
DEFAULT_N_RESULTS == 5

(***************************************************************************)
(* Characters and strings.                                                 *)
(***************************************************************************)
UpperCase == <<"A","B","C","D","E","F","G","H","I","J","K","L","M",
               "N","O","P","Q","R","S","T","U","V","W","X","Y","Z">>
LowerCase == <<"a","b","c","d","e","f","g","h","i","j","k","l","m",
               "n","o","p","q","r","s","t","u","v","w","x","y","z">>
Digits == {"0","1","2","3","4","5","6","7","8","9"}

\* str.lower() on one character
LowerChar(c) ==
    IF \E i \in 1..26 : UpperCase[i] = c
    THEN LowerCase[CHOOSE i \in 1..26 : UpperCase[i] = c]
    ELSE c

\* str.lower()
Lower(s) == [i \in 1..Len(s) |-> LowerChar(s[i])]

\* str.upper() on one character
UpperChar(c) ==
    IF \E i \in 1..26 : LowerCase[i] = c
    THEN UpperCase[CHOOSE i \in 1..26 : LowerCase[i] = c]
    ELSE c

\* str.upper()
Upper(s) == [i \in 1..Len(s) |-> UpperChar(s[i])]

\* \d of the re module
IsDigit(c) == c \in Digits

\* \s of the re module, and the characters str.strip() removes
IsSpace(c) == c \in {" ", "\n", "\t"}

\* \w of the re module
IsWord(c) ==
    \/ IsDigit(c)
    \/ c = "_"
    \/ \E i \in 1..26 : c = UpperCase[i] \/ c = LowerCase[i]
    \/ c \in {"U+0E22", "U+0E07"}

\* the literal w occurs in s at position i
HasAt(s, i, w) ==
    /\ i >= 1
    /\ i + Len(w) - 1 <= Len(s)
    /\ \A j \in 1..Len(w) : s[i + j - 1] = w[j]

\* Python's  w in s
Contains(s, w) == \E i \in 1..(Len(s) + 1) : HasAt(s, i, w)

\* the first position at or after j that holds no white space (\s*)
SkipSpaces(s, j) ==
    CHOOSE k \in j..(Len(s) + 1) :
        /\ \A m \in j..(k - 1) : IsSpace(s[m])
        /\ (k = Len(s) + 1 \/ ~IsSpace(s[k]))

\* the first position at or after j that holds no digit (\d*)
SkipDigits(s, j) ==
    CHOOSE k \in j..(Len(s) + 1) :
        /\ \A m \in j..(k - 1) : IsDigit(s[m])
        /\ (k = Len(s) + 1 \/ ~IsDigit(s[k]))

\* \s+\d+ matches at j
SpacesDigitsAt(s, j) ==
    /\ j <= Len(s)
    /\ IsSpace(s[j])
    /\ LET k == SkipSpaces(s, j) IN k <= Len(s) /\ IsDigit(s[k])

\* \s*\d+ matches at j
OptSpacesDigitsAt(s, j) ==
    /\ j <= Len(s) + 1
    /\ LET k == SkipSpaces(s, j) IN k <= Len(s) /\ IsDigit(s[k])

\* str.strip(): white space removed at both ends
Strip(s) ==
    IF \A i \in 1..Len(s) : IsSpace(s[i])
    THEN << >>
    ELSE LET a == CHOOSE i \in 1..Len(s) :
                      ~IsSpace(s[i]) /\ \A m \in 1..(i - 1) : IsSpace(s[m])
             b == CHOOSE i \in 1..Len(s) :
                      ~IsSpace(s[i]) /\ \A m \in (i + 1)..Len(s) : IsSpace(s[m])
         IN  SubSeq(s, a, b)

\* the concatenation of a sequence of strings
RECURSIVE Concat(_)
Concat(ws) == IF ws = << >> THEN << >> ELSE Head(ws) \o Concat(Tail(ws))

\* the range of a sequence
Range(s) == {s[i] : i \in 1..Len(s)}

\* the sequences over S of length at most n
SeqUpTo(S, n) == UNION {[1..k -> S] : k \in 0..n}

(***************************************************************************)
(* agent_router.py: the Act Detector and the Section-Query Detector.       *)
(***************************************************************************)
\* the five corpora, in the order of the keyword table
ALL_ACTS == <<"bns", "ipc", "crpc", "cpc", "bsa">>

\* the corpus codes as characters
ActCode(a) ==
    CASE a = "bns"  -> <<"b","n","s">>
      [] a = "ipc"  -> <<"i","p","c">>
      [] a = "crpc" -> <<"c","r","p","c">>
      [] a = "cpc"  -> <<"c","p","c">>
      [] a = "bsa"  -> <<"b","s","a">>

\* act_keywords
act_keywords(a) ==
    CASE a = "bns" ->
           { <<"b","n","s">>, <<"n","y","a","y","a">>,
             <<"s","a","n","h","i","t","a">>,
             <<"b","h","a","r","a","t","i","y","a">>,
             <<"n","e","w"," ","c","o","d","e">>, <<"2","0","2","3">> }
      [] a = "ipc" ->
           { <<"i","p","c">>,
             <<"i","n","d","i","a","n"," ","p","e","n","a","l">>,
             <<"p","e","n","a","l"," ","c","o","d","e">>,
             <<"o","l","d"," ","c","o","d","e">>, <<"1","8","6","0">> }
      [] a = "crpc" ->
           { <<"c","r","p","c">>,
             <<"c","r","i","m","i","n","a","l"," ","p","r","o","c","e","d","u","r","e">>,
             <<"p","r","o","c","e","d","u","r","e"," ","c","o","d","e">>,
             <<"b","a","i","l">>, <<"a","r","r","e","s","t">>,
             <<"t","r","i","a","l">> }
      [] a = "cpc" ->
           { <<"c","p","c">>,
             <<"c","i","v","i","l"," ","p","r","o","c","e","d","u","r","e">>,
             <<"c","i","v","i","l"," ","c","o","d","e">>,
             <<"s","u","i","t">>, <<"p","l","a","i","n","t">>,
             <<"d","e","c","r","e","e">> }
      [] a = "bsa" ->
           { <<"b","s","a">>, <<"e","v","i","d","e","n","c","e">>,
             <<"e","v","i","d","e","n","c","e"," ","a","c","t">>,
             <<"p","r","o","o","f">>, <<"w","i","t","n","e","s","s">>,
             <<"e","x","h","i","b","i","t">> }

\* any(keyword in query_lower for keyword in keywords)
KeywordHit(query_lower, a) ==
    \E kw \in act_keywords(a) : Contains(query_lower, kw)

\* the loop over act_keywords.items(): relevant_acts after the first n corpora
RECURSIVE relevant_acts(_, _)
relevant_acts(query_lower, n) ==
    IF n = 0 THEN << >>
    ELSE IF KeywordHit(query_lower, ALL_ACTS[n])
         THEN Append(relevant_acts(query_lower, n - 1), ALL_ACTS[n])
         ELSE relevant_acts(query_lower, n - 1)

\* a detector that stops at the first corpus with a keyword
detect_acts_first_match_only(q) ==
    LET found == relevant_acts(Lower(q), Len(ALL_ACTS)) IN
    IF found = << >> THEN ALL_ACTS ELSE <<Head(found)>>

\* a detector without the fallback of lines 85-86
detect_acts_without_fallback(q) == relevant_acts(Lower(q), Len(ALL_ACTS))

\* detect_acts_from_query: the corpora with a keyword in the query, in table
\* order; all five when there is none
detect_acts_from_query(q) ==
    LET found == relevant_acts(Lower(q), Len(ALL_ACTS)) IN
    IF found = << >> THEN ALL_ACTS ELSE found

\* the literals of the section patterns
SECTION_WORD == <<"s","e","c","t","i","o","n">>
SEC_WORD == <<"s","e","c">>
OF_WORD == <<"o","f">>
\* the two characters the third pattern holds in the source file (the bytes
\* e0 b8 a2 e0 b8 87), which are not the section sign U+00A7
SIGN_LITERAL == <<"U+0E22", "U+0E07">>

\* r'section\s+\d+' matches at i
Pattern1At(s, i) == HasAt(s, i, SECTION_WORD) /\ SpacesDigitsAt(s, i + 7)

\* r'sec\.?\s*\d+' matches at i
Pattern2At(s, i) ==
    /\ HasAt(s, i, SEC_WORD)
    /\ \/ HasAt(s, i + 3, <<".">>) /\ OptSpacesDigitsAt(s, i + 4)
       \/ OptSpacesDigitsAt(s, i + 3)

\* the third pattern, the sign literal followed by \s*\d+, matches at i
Pattern3At(s, i) == HasAt(s, i, SIGN_LITERAL) /\ OptSpacesDigitsAt(s, i + 2)

\* r'\b\d+\s+of\s+(bns|ipc|crpc|cpc|bsa)' matches at i
Pattern4At(s, i) ==
    /\ i <= Len(s)
    /\ IsDigit(s[i])
    /\ (i = 1 \/ ~IsWord(s[i - 1]))
    /\ LET k == SkipDigits(s, i) IN
          /\ k <= Len(s)
          /\ IsSpace(s[k])
          /\ LET o == SkipSpaces(s, k) IN
                /\ HasAt(s, o, OF_WORD)
                /\ o + 2 <= Len(s)
                /\ IsSpace(s[o + 2])
                /\ \E n \in 1..Len(ALL_ACTS) :
                       HasAt(s, SkipSpaces(s, o + 2), ActCode(ALL_ACTS[n]))

\* r'(bns|ipc|crpc|cpc|bsa)\s+section\s+\d+' matches at i
Pattern5At(s, i) ==
    \E n \in 1..Len(ALL_ACTS) :
        LET j == i + Len(ActCode(ALL_ACTS[n])) IN
           /\ HasAt(s, i, ActCode(ALL_ACTS[n]))
           /\ j <= Len(s)
           /\ IsSpace(s[j])
           /\ Pattern1At(s, SkipSpaces(s, j))

\* is_section_query: any(re.search(pattern, query_lower) ...)
is_section_query(q) ==
    LET s == Lower(q) IN
    \E i \in 1..Len(s) :
        \/ Pattern1At(s, i)
        \/ Pattern2At(s, i)
        \/ Pattern3At(s, i)
        \/ Pattern4At(s, i)
        \/ Pattern5At(s, i)

(***************************************************************************)
(* chat_app.py: normalize_section_query.                                   *)
(***************************************************************************)
\* (?:section|sec\.?)\s*(\d+) matches at i: where group 1 starts, else 0
SectionRefAt(s, i) ==
    IF HasAt(s, i, SECTION_WORD) /\ OptSpacesDigitsAt(s, i + 7)
    THEN SkipSpaces(s, i + 7)
    ELSE IF HasAt(s, i, SEC_WORD) /\ HasAt(s, i + 3, <<".">>)
            /\ OptSpacesDigitsAt(s, i + 4)
    THEN SkipSpaces(s, i + 4)
    ELSE IF HasAt(s, i, SEC_WORD) /\ OptSpacesDigitsAt(s, i + 3)
    THEN SkipSpaces(s, i + 3)
    ELSE 0

\* ^(\d+)$ matches: digits only, a final newline allowed by $
BareNumber(s) ==
    /\ Len(s) >= 1
    /\ IsDigit(s[1])
    /\ LET k == SkipDigits(s, 1) IN
          k = Len(s) + 1 \/ (k = Len(s) /\ s[k] = "\n")

\* the digits that start at position d
DigitsFrom(s, d) == SubSeq(s, d, SkipDigits(s, d) - 1)

\* normalize_section_query: the digits of the leftmost section reference, or
\* of a bare number; the empty string stands for None (both are false in
\* the caller's test, and a match never yields the empty string)
normalize_section_query(q) ==
    LET s == Lower(q) IN
    IF BareNumber(s) THEN DigitsFrom(s, 1)
    ELSE IF \E i \in 1..Len(s) : SectionRefAt(s, i) > 0
    THEN LET i == CHOOSE i \in 1..Len(s) :
                      /\ SectionRefAt(s, i) > 0
                      /\ \A m \in 1..(i - 1) : SectionRefAt(s, m) = 0
         IN  DigitsFrom(s, SectionRefAt(s, i))
    ELSE << >>

(***************************************************************************)
(* agent_router.py: classify_query.                                        *)
(***************************************************************************)
\* texts the language model may answer the classification prompt with
ClassifierReplies ==
    { <<"d","i","r","e","c","t">>,
      <<"S","c","e","n","a","r","i","o">>,
      <<" ","s","e","c","t","i","o","n","\n">>,
      <<"u","n","s","u","r","e">> }

DIRECT == <<"d","i","r","e","c","t">>
SCENARIO == <<"s","c","e","n","a","r","i","o">>

\* a classifier that asks the model first and applies the section patterns
\* to override its answer
classify_query_model_first(q) ==
    { [raised |-> FALSE,
       label |-> IF is_section_query(q) THEN SECTION_WORD ELSE Strip(Lower(c)),
       calls |-> 1] : c \in ClassifierReplies }
    \cup { [raised |-> TRUE, label |-> << >>, calls |-> 1] }

\* classify_query: the outcomes of one call.  A section query returns at
\* once; any other query costs one model call, which raises or answers, and
\* the answer is returned lower-cased and stripped
classify_query(q) ==
    IF is_section_query(q)
    THEN { [raised |-> FALSE, label |-> SECTION_WORD, calls |-> 0] }
    ELSE { [raised |-> FALSE, label |-> Strip(Lower(c)), calls |-> 1] :
               c \in ClassifierReplies }
         \cup { [raised |-> TRUE, label |-> << >>, calls |-> 1] }

(***************************************************************************)
(* concept_expander.py: expand_offenses.                                   *)
(***************************************************************************)
THEFT == <<"t","h","e","f","t">>
RIOT == <<"r","i","o","t">>

\* offense_lower in OFFENSE_CACHE
InCache(offense_lower) == offense_lower \in {THEFT, RIOT}

\* OFFENSE_CACHE[offense_lower]
OFFENSE_CACHE(offense_lower) ==
    IF offense_lower = THEFT
    THEN { <<"l","a","r","c","e","n","y">>, <<"s","t","e","a","l","i","n","g">> }
    ELSE { <<"u","n","l","a","w","f","u","l"," ","a","s","s","e","m","b","l","y">>,
           <<"m","o","b"," ","v","i","o","l","e","n","c","e">> }

\* str.split("\n")
RECURSIVE SplitLines(_)
SplitLines(s) ==
    IF \A i \in 1..Len(s) : s[i] # "\n"
    THEN <<s>>
    ELSE LET i == CHOOSE i \in 1..Len(s) :
                      s[i] = "\n" /\ \A m \in 1..(i - 1) : s[m] # "\n"
         IN  <<SubSeq(s, 1, i - 1)>> \o SplitLines(SubSeq(s, i + 1, Len(s)))

\* str.strip('"'): double quotes removed at both ends
StripQuotes(s) ==
    IF \A i \in 1..Len(s) : s[i] = "\""
    THEN << >>
    ELSE LET a == CHOOSE i \in 1..Len(s) :
                      s[i] # "\"" /\ \A m \in 1..(i - 1) : s[m] = "\""
             b == CHOOSE i \in 1..Len(s) :
                      s[i] # "\"" /\ \A m \in (i + 1)..Len(s) : s[m] = "\""
         IN  SubSeq(s, a, b)

\* [offense] + [v.strip('"').strip() for v in content.split("\n") if v.strip()],
\* as the set that expanded.update adds
Variations(offense, content) ==
    {offense} \cup
    { Strip(StripQuotes(v)) : v \in {w \in Range(SplitLines(content)) : Strip(w) # << >>} }

\* the offense terms of the model: two cached ones (one of them capitalised
\* as well) and one the cache does not hold
OffenseTerms ==
    { THEFT, <<"T","h","e","f","t">>, RIOT, <<"f","r","a","u","d">> }

\* texts the language model may answer the synonym prompt with
ExpanderReplies ==
    { <<"\"","d","e","c","e","i","t","\"","\n"," ","c","h","e","a","t","i","n","g"," ","\n">>,
      << >> }

(***************************************************************************)
(* State.                                                                  *)
(***************************************************************************)
VARIABLES
    query,          \* the text handed to the function under analysis
    cq,             \* classify_query: whether it ran, its outcome, its model calls
    acts,           \* detect_acts_from_query: whether it ran and what it returned
    offense_list,   \* expand_offenses: its argument
    ex_pc,          \* expand_offenses: "idle", "loop" or "returned"
    ex_i,           \* expand_offenses: the offense the loop is at
    expanded,       \* expand_offenses: the set built so far
    ex_failed,      \* the positions of offense_list whose model call raised
    rd_pc,          \* retrieve_direct: "idle", "embed", "loop", "hits",
                    \* "returned" or "raised"
    query_text,     \* retrieve_direct: the search key
    query_vector,   \* retrieve_direct: the embedding of the search key
    rd_trace,       \* how often the key was embedded, and the vectors the
                    \* index queries were made with
    n_results,      \* retrieve_direct: top_k
    act_indexes,    \* retrieve_direct: the index names to search
    rd_i,           \* retrieve_direct: the index the loop is at
    rd_rank,        \* retrieve_direct: hits of search_res read so far
    results,        \* retrieve_direct: {"documents": [...], "metadatas": [...]}
    hitlog,         \* the hits whose text was appended, in order
    failed,         \* per index name: whether its try block raised, and where
    pc,             \* run_legal_analysis: where the retrieval stage is
    section_num,    \* run_legal_analysis: normalize_section_query(query)
    scenario_data,  \* run_legal_analysis: what analyze_scenario returned
    rla_results,    \* run_legal_analysis: its results variable
    retrieval_error,\* whether the except block of lines 147-150 ran
    calls,          \* the calls run_legal_analysis made, in order
    analysis,       \* run_legal_analysis: the text generate_response returned
    generation,     \* how generate_response ended: "none", "text", "error"
                    \* (its except block ran) or "no content"
    sections,       \* run_legal_analysis: the citation list
    sections_by_act,\* render_message: the citations grouped by act
    messages,       \* st.session_state.messages
    recent_queries, \* st.session_state.recent_queries
    popped,         \* the entry the latest pop(0) of line 258 removed
    em_pc,          \* embed_act: "idle", "start", "loop", "done", "skipped"
                    \* or "raised"
    chunks,         \* embed_act: the chunks of the file, in file order
    em_i,           \* embed_act: the chunk the loop is at
    batch_payload,  \* embed_act: the batch being filled
    upserted        \* the batches handed to index.upsert, in order

routerVars == <<query, cq, acts>>
expandVars == <<offense_list, ex_pc, ex_i, expanded, ex_failed>>
retrieveVars == <<rd_pc, query_text, query_vector, rd_trace, n_results,
                  act_indexes, rd_i, rd_rank, results, hitlog, failed>>
citeVars == <<analysis, generation, sections, sections_by_act>>
pipelineVars == <<pc, section_num, scenario_data, rla_results,
                  retrieval_error, calls, citeVars>>
sessionVars == <<messages, recent_queries, popped>>
embedVars == <<em_pc, chunks, em_i, batch_payload, upserted>>
vars == <<routerVars, expandVars, retrieveVars, pipelineVars, sessionVars,
          embedVars>>

NotRun == [ran |-> FALSE, raised |-> FALSE, label |-> << >>, calls |-> 0]

\* {"documents": [], "metadatas": []}
EmptyResults == [documents |-> << >>, metadatas |-> << >>]

\* f"{act}_sections"
index_name(a) ==
    CASE a = "bns"  -> "bns_sections"
      [] a = "ipc"  -> "ipc_sections"
      [] a = "crpc" -> "crpc_sections"
      [] a = "cpc"  -> "cpc_sections"
      [] a = "bsa"  -> "bsa_sections"

\* the indexes embed_to_endee.py creates, one per corpus
AllIndexes == {index_name(ALL_ACTS[n]) : n \in 1..Len(ALL_ACTS)}

\* no router function has been called
RouterIdle ==
    /\ query = << >>
    /\ cq = NotRun
    /\ acts = [ran |-> FALSE, list |-> << >>]

\* no call of expand_offenses is under way
ExpandIdle ==
    /\ offense_list = << >>
    /\ ex_pc = "idle"
    /\ ex_i = 1
    /\ expanded = {}
    /\ ex_failed = {}

\* nothing was embedded and no index was queried
NoTrace == [encoded |-> 0, queried |-> {}]

\* no call of retrieve_direct is under way
RetrieveIdle ==
    /\ rd_pc = "idle"
    /\ query_text = << >>
    /\ query_vector = << >>
    /\ rd_trace = NoTrace
    /\ n_results = 0
    /\ act_indexes = << >>
    /\ rd_i = 1
    /\ rd_rank = 0
    /\ results = EmptyResults
    /\ hitlog = << >>
    /\ failed = [n \in AllIndexes |-> "no"]

\* what scenario_data holds before analyze_scenario returned
NoScenario ==
    [has_primary |-> FALSE, primary_offense |-> << >>,
     related_offenses |-> << >>, has_acts |-> FALSE, relevant_acts |-> << >>]

\* the session state init_session_state leaves
SessionIdle ==
    /\ messages = << >>
    /\ recent_queries = << >>
    /\ popped = << >>

\* embed_act is not running
EmbedIdle ==
    /\ em_pc = "idle"
    /\ chunks = << >>
    /\ em_i = 1
    /\ batch_payload = << >>
    /\ upserted = << >>

\* run_legal_analysis is not running
PipelineIdle ==
    /\ pc = "idle"
    /\ section_num = << >>
    /\ scenario_data = NoScenario
    /\ rla_results = EmptyResults
    /\ retrieval_error = FALSE
    /\ calls = << >>
    /\ analysis = << >>
    /\ generation = "none"
    /\ sections = << >>
    /\ sections_by_act = << >>

(***************************************************************************)
(* The router functions called on their own, on every query of a           *)
(* vocabulary.                                                             *)
(***************************************************************************)
\* the words the queries of the router specification are made of
RouterWords ==
    { <<"s","e","c","t","i","o","n">>, <<"S","e","c",".">>, <<" ">>,
      <<"3","0","2">>, <<"o","f">>, <<"B","N","S">>, <<"i","p","c">>,
      <<"c","i","v","i","l"," ","p","r","o","c","e","d","u","r","e"," ","c","o","d","e">>,
      <<"w","i","t","n","e","s","s">>, <<"U+00A7">> }

\* longer queries: one that names all five corpora, one per corpus-code
\* section pattern
LongQueries ==
    { <<"B","N","S"," ","i","p","c"," ","c","r","p","c"," ","c","p","c"," ","b","s","a">>,
      <<"I","P","C"," ","s","e","c","t","i","o","n"," ","3","7","8">>,
      <<"w","h","a","t"," ","i","s"," ","4","5"," ","o","f"," ","B","S","A">> }

RouterQueries ==
    {Concat(ws) : ws \in SeqUpTo(RouterWords, MaxWords)} \cup LongQueries

RouterInit ==
    /\ query \in RouterQueries
    /\ cq = NotRun
    /\ acts = [ran |-> FALSE, list |-> << >>]
    /\ ExpandIdle
    /\ RetrieveIdle
    /\ PipelineIdle
    /\ SessionIdle
    /\ EmbedIdle

\* one call classify_query(query)
CallClassify ==
    /\ ~cq.ran
    /\ \E o \in classify_query(query) :
           cq' = [ran |-> TRUE, raised |-> o.raised, label |-> o.label,
                  calls |-> o.calls]
    /\ UNCHANGED <<query, acts, expandVars, retrieveVars, pipelineVars>>
    /\ UNCHANGED <<sessionVars, embedVars>>

\* one call detect_acts_from_query(query)
CallDetectActs ==
    /\ ~acts.ran
    /\ acts' = [ran |-> TRUE, list |-> detect_acts_from_query(query)]
    /\ UNCHANGED <<query, cq, expandVars, retrieveVars, pipelineVars>>
    /\ UNCHANGED <<sessionVars, embedVars>>

RouterNext == CallClassify \/ CallDetectActs

SpecRouter == RouterInit /\ [][RouterNext]_vars

(***************************************************************************)
(* expand_offenses, one loop iteration a step.                             *)
(***************************************************************************)
\* expand_offenses is called with a list of offenses
ExpandInit ==
    /\ RouterIdle
    /\ RetrieveIdle
    /\ PipelineIdle
    /\ offense_list \in SeqUpTo(OffenseTerms, MaxOffenses)
    /\ ex_pc = "loop"
    /\ ex_i = 1
    /\ expanded = {}
    /\ ex_failed = {}
    /\ SessionIdle
    /\ EmbedIdle

\* the loop is at an offense
AtOffense == ex_pc = "loop" /\ ex_i <= Len(offense_list)

\* what a cache hit adds to expanded (line 20)
CacheAdds(offense) == OFFENSE_CACHE(Lower(offense))

\* what a failed model call adds to expanded (line 41)
FailureAdds(offense) == {offense}

\* a handler that lets the exception of a model call leave expand_offenses
AfterExpandError_reraise == "raised"

\* lines 39-41: where the call goes on after the except block
AfterExpandError == "loop"

\* lines 19-21: the offense is in the cache
ExpandFromCache ==
    /\ AtOffense
    /\ InCache(Lower(offense_list[ex_i]))
    /\ expanded' = expanded \cup CacheAdds(offense_list[ex_i])
    /\ ex_i' = ex_i + 1
    /\ UNCHANGED <<offense_list, ex_pc, ex_failed, routerVars, retrieveVars,
                   pipelineVars>>
    /\ UNCHANGED <<sessionVars, embedVars>>

\* lines 23-38: the model answers
ExpandFromModel ==
    /\ AtOffense
    /\ ~InCache(Lower(offense_list[ex_i]))
    /\ \E content \in ExpanderReplies :
           expanded' = expanded \cup Variations(offense_list[ex_i], content)
    /\ ex_i' = ex_i + 1
    /\ UNCHANGED <<offense_list, ex_pc, ex_failed, routerVars, retrieveVars,
                   pipelineVars>>
    /\ UNCHANGED <<sessionVars, embedVars>>

\* lines 39-41: the model call raises
ExpandModelFails ==
    /\ AtOffense
    /\ ~InCache(Lower(offense_list[ex_i]))
    /\ expanded' = expanded \cup FailureAdds(offense_list[ex_i])
    /\ ex_failed' = ex_failed \cup {ex_i}
    /\ ex_i' = ex_i + 1
    /\ ex_pc' = AfterExpandError
    /\ UNCHANGED <<offense_list, routerVars, retrieveVars, pipelineVars>>
    /\ UNCHANGED <<sessionVars, embedVars>>

\* line 43: return list(expanded)
ExpandReturn ==
    /\ ex_pc = "loop"
    /\ ex_i > Len(offense_list)
    /\ ex_pc' = "returned"
    /\ UNCHANGED <<offense_list, ex_i, expanded, ex_failed, routerVars,
                   retrieveVars, pipelineVars>>
    /\ UNCHANGED <<sessionVars, embedVars>>

ExpandNext ==
    \/ ExpandFromCache
    \/ ExpandFromModel
    \/ ExpandModelFails
    \/ ExpandReturn

SpecExpand == ExpandInit /\ [][ExpandNext]_vars

(***************************************************************************)
(* retriever.py: retrieve_direct, one statement of the loop a step.  The   *)
(* backend is free: looking an index up or querying it may raise, and the  *)
(* hits of an answer are read one by one, each a stored provision, a hit   *)
(* with no text, or a malformed hit.                                       *)
(***************************************************************************)
\* the corpus an index holds
IndexAct(index) == CHOOSE a \in Range(ALL_ACTS) : index_name(a) = index

\* the 'act' that embed_to_endee.py stores (line 72): act_name.upper()
StoredAct(index) == Upper(ActCode(IndexAct(index)))

\* the section ids of the provisions, zero-padded to three digits as the
\* converters write them, the last one with a letter
SectionId(p) ==
    IF p = 1 THEN <<"0","4","5">>
    ELSE IF p = 2 THEN <<"3","0","2">>
    ELSE <<"1","2","0","A">>

\* f"Section {section}"
SECTION_PREFIX == <<"S","e","c","t","i","o","n"," ">>

\* the provision of the k-th nearest chunk of an index.  Every chunk gets a
\* fresh id when it is embedded (line 66), so an index may hold a provision
\* more than once: those of BNS and CrPC hold their first provision twice
Provision(index, k) ==
    IF k = 2 /\ index \in {"bns_sections", "crpc_sections"} THEN 1 ELSE k

\* the meta that embed_to_endee.py stores with the k-th nearest chunk of an
\* index (lines 68-74)
StoredMeta(index, k) ==
    LET p == Provision(index, k) IN
    [section |-> SectionId(p),
     section_display |-> SECTION_PREFIX \o SectionId(p),
     heading |-> <<"O","f"," ">> \o ActCode(IndexAct(index)) \o <<" ">>
                     \o SectionId(p),
     act |-> StoredAct(index),
     document |-> <<"text", index, p>>]

\* a hit without text: its meta lacks 'document', or holds an empty one
NoTextMeta(index, k) == [StoredMeta(index, k) EXCEPT !.document = << >>]

\* clean_meta = {k: v for k, v in meta.items() if k != 'document'}
clean_meta(meta) == [f \in (DOMAIN meta) \ {"document"} |-> meta[f]]

\* a loop body that puts every hit in front of the earlier ones
AppendHit_newest_first(res, meta) ==
    [documents |-> <<meta.document>> \o res.documents,
     metadatas |-> <<clean_meta(meta)>> \o res.metadatas]

\* a loop body that puts the metadata of a hit at the front of its list
AppendHit_metadata_in_front(res, meta) ==
    [documents |-> Append(res.documents, meta.document),
     metadatas |-> <<clean_meta(meta)>> \o res.metadatas]

\* lines 34-38: the text and the cleaned meta of a hit are appended
AppendHit(res, meta) ==
    [documents |-> Append(res.documents, meta.document),
     metadatas |-> Append(res.metadatas, clean_meta(meta))]

\* a handler that lets the exception of an index leave the call
AfterSearchError_reraise == "raised"

\* lines 40-41: where the call goes on after the except block
AfterSearchError == "loop"

\* what lines 30-38 keep of an index's hits when a later hit raises
KeptOnError(res) == res

\* [f"{act}_sections" for act in acts_to_search]
IndexNames(acts_to_search) ==
    [n \in 1..Len(acts_to_search) |-> index_name(acts_to_search[n])]

\* lines 14-17: retrieve_direct(q, k) is entered
Call_retrieve_direct(q, k) ==
    /\ rd_pc' = "embed"
    /\ query_text' = q
    /\ query_vector' = << >>
    /\ rd_trace' = NoTrace
    /\ n_results' = k
    /\ act_indexes' = IndexNames(detect_acts_from_query(q))
    /\ rd_i' = 1
    /\ rd_rank' = 0
    /\ results' = EmptyResults
    /\ hitlog' = << >>
    /\ failed' = [n \in AllIndexes |-> "no"]

\* model.encode(query_text).tolist(): the vector of a text
Embedding(text) == <<"vector of", text>>

\* an encode failure that is swallowed, the loop going on without a vector
AfterEmbedError_carry_on == "loop"

\* line 18 is outside every try block: the exception leaves the call
AfterEmbedError == "raised"

\* line 18: the query is embedded
Embed ==
    /\ rd_pc = "embed"
    /\ query_vector' = Embedding(query_text)
    /\ rd_trace' = [rd_trace EXCEPT !.encoded = @ + 1]
    /\ rd_pc' = "loop"
    /\ UNCHANGED <<query_text, n_results, act_indexes, rd_i, rd_rank, results,
                   hitlog, failed, routerVars, expandVars, pipelineVars,
                   sessionVars, embedVars>>

\* line 18: model.encode raises
EmbedFails ==
    /\ rd_pc = "embed"
    /\ rd_pc' = AfterEmbedError
    /\ UNCHANGED <<query_text, query_vector, rd_trace, n_results, act_indexes,
                   rd_i, rd_rank, results, hitlog, failed, routerVars,
                   expandVars, pipelineVars, sessionVars, embedVars>>

\* the loop is at an index
AtIndex == rd_pc = "loop" /\ rd_i <= Len(act_indexes)

\* the except block of lines 40-41, entered from where the try block raised
SearchError(where) ==
    /\ failed' = [failed EXCEPT ![act_indexes[rd_i]] = where]
    /\ rd_pc' = AfterSearchError
    /\ rd_i' = rd_i + 1
    /\ rd_rank' = 0

\* line 26: index.query(vector=query_vector, top_k=n_results) is called
QueryIndex ==
    rd_trace' = [rd_trace EXCEPT !.queried = @ \cup {query_vector}]

\* line 23: client.get_index raises (no such index, no connection)
GetIndexFails ==
    /\ AtIndex
    /\ SearchError("call")
    /\ UNCHANGED <<query_text, query_vector, rd_trace, n_results, act_indexes,
                   results, hitlog, routerVars, expandVars, pipelineVars,
                   sessionVars, embedVars>>

\* line 26: index.query raises (timeout), or line 30: its answer cannot be
\* iterated
QueryFails ==
    /\ AtIndex
    /\ QueryIndex
    /\ SearchError("call")
    /\ UNCHANGED <<query_text, query_vector, n_results, act_indexes, results,
                   hitlog, routerVars, expandVars, pipelineVars, sessionVars,
                   embedVars>>

\* line 26: index.query answers
QueryAnswers ==
    /\ AtIndex
    /\ QueryIndex
    /\ rd_pc' = "hits"
    /\ rd_rank' = 0
    /\ UNCHANGED <<query_text, query_vector, n_results, act_indexes, rd_i,
                   results, hitlog, failed, routerVars, expandVars,
                   pipelineVars, sessionVars, embedVars>>

\* the answer holds another hit: at most top_k of them, and at most MaxHits
MoreHits ==
    /\ rd_pc = "hits"
    /\ rd_rank < n_results
    /\ rd_rank < MaxHits

\* the well-formed hits the backend may hand out at rank k of an index
HitMetas(index, k) == {StoredMeta(index, k), NoTextMeta(index, k)}

\* a hit as the log keeps it: with the index and the rank it came from
Logged(meta, index, rank) ==
    [section |-> meta.section, section_display |-> meta.section_display,
     heading |-> meta.heading, act |-> meta.act, document |-> meta.document,
     index |-> index, rank |-> rank]

\* lines 30-38: the next hit is well-formed; it is appended if it has text
ReadHit ==
    /\ MoreHits
    /\ \E meta \in HitMetas(act_indexes[rd_i], rd_rank + 1) :
           IF meta.document # << >>
           THEN /\ results' = AppendHit(results, meta)
                /\ hitlog' = Append(hitlog,
                                    Logged(meta, act_indexes[rd_i], rd_rank + 1))
           ELSE UNCHANGED <<results, hitlog>>
    /\ rd_rank' = rd_rank + 1
    /\ UNCHANGED <<rd_pc, query_text, query_vector, rd_trace, n_results,
                   act_indexes, rd_i, failed, routerVars, expandVars,
                   pipelineVars, sessionVars, embedVars>>

\* lines 31-32: the next hit is malformed (no mapping, or its meta is none):
\* hit.get or meta.get raises, before anything of the hit is appended
ReadHitMalformed ==
    /\ MoreHits
    /\ SearchError("hit")
    /\ results' = KeptOnError(results)
    /\ UNCHANGED <<query_text, query_vector, rd_trace, n_results, act_indexes,
                   hitlog, routerVars, expandVars, pipelineVars, sessionVars,
                   embedVars>>

\* line 30: the hits are exhausted
HitsEnd ==
    /\ rd_pc = "hits"
    /\ rd_pc' = "loop"
    /\ rd_i' = rd_i + 1
    /\ rd_rank' = 0
    /\ UNCHANGED <<query_text, query_vector, rd_trace, n_results, act_indexes,
                   results, hitlog, failed, routerVars, expandVars,
                   pipelineVars, sessionVars, embedVars>>

\* line 43: return results
Return ==
    /\ rd_pc = "loop"
    /\ rd_i > Len(act_indexes)
    /\ rd_pc' = "returned"
    /\ UNCHANGED <<query_text, query_vector, rd_trace, n_results, act_indexes,
                   rd_i, rd_rank, results, hitlog, failed, routerVars,
                   expandVars, pipelineVars, sessionVars, embedVars>>

\* search keys: one that names no corpus, one that names two, one that
\* names one
SearchKeys ==
    { <<"S","e","c","t","i","o","n"," ","3","0","2">>,
      <<"b","a","i","l"," ","w","i","t","n","e","s","s">>,
      <<"i","p","c">> }

RetrieveInit ==
    /\ RouterIdle
    /\ ExpandIdle
    /\ RetrieveIdle
    /\ PipelineIdle
    /\ SessionIdle
    /\ EmbedIdle

\* retrieve_direct(key) is called with the default n_results
CallRetrieve ==
    /\ rd_pc = "idle"
    /\ \E key \in SearchKeys : Call_retrieve_direct(key, DEFAULT_N_RESULTS)
    /\ UNCHANGED <<routerVars, expandVars, pipelineVars>>
    /\ UNCHANGED <<sessionVars, embedVars>>

RetrieveNext ==
    \/ CallRetrieve
    \/ Embed
    \/ EmbedFails
    \/ GetIndexFails
    \/ QueryFails
    \/ QueryAnswers
    \/ ReadHit
    \/ ReadHitMalformed
    \/ HitsEnd
    \/ Return

SpecRetrieve == RetrieveInit /\ [][RetrieveNext]_vars

(***************************************************************************)
(* scenario_processor.py: analyze_scenario.                                *)
(***************************************************************************)
\* objects the language model may answer the scenario prompt with, parsed:
\* one with every key, whose offenses name a corpus keyword; one without
\* the keys 'primary_offense' and 'relevant_acts'; one whose 'relevant_acts'
\* is the empty list
ScenarioReplies ==
    { [has_primary |-> TRUE, primary_offense |-> THEFT,
       related_offenses |-> << <<"b","a","i","l">> >>,
       has_acts |-> TRUE, relevant_acts |-> <<"ipc">>],
      [has_primary |-> FALSE, primary_offense |-> << >>,
       related_offenses |-> << >>,
       has_acts |-> FALSE, relevant_acts |-> << >>],
      [has_primary |-> TRUE, primary_offense |-> <<"s","u","i","t">>,
       related_offenses |-> << >>,
       has_acts |-> TRUE, relevant_acts |-> << >>] }

\* an analysis that returns the parsed object as the model gave it
analyze_scenario_without_fallback(scenario) ==
    { [raised |-> TRUE, data |-> NoScenario] } \cup
    { [raised |-> FALSE, data |-> r] : r \in ScenarioReplies }

\* analyze_scenario: the outcomes of one call.  The model call or json.loads
\* raises, or the parsed object is returned, its relevant_acts filled in by
\* the Act Detector when missing or empty (lines 43-45)
analyze_scenario(scenario) ==
    { [raised |-> TRUE, data |-> NoScenario] } \cup
    { [raised |-> FALSE,
       data |-> IF r.has_acts /\ r.relevant_acts # << >>
                THEN r
                ELSE [r EXCEPT !.has_acts = TRUE,
                               !.relevant_acts =
                                   detect_acts_from_query(scenario)]] :
          r \in ScenarioReplies }

(***************************************************************************)
(* chat_ui.py: run_legal_analysis, the retrieval stage (lines 125-150).    *)
(***************************************************************************)
\* " ".join(words)
RECURSIVE JoinWords(_)
JoinWords(words) ==
    IF words = << >> THEN << >>
    ELSE IF Len(words) = 1 THEN words[1]
    ELSE words[1] \o <<" ">> \o JoinWords(Tail(words))

\* f"Section {section_num}", the key of search_section_all_acts
SectionKey(num) == SECTION_PREFIX \o num

\* a router that sends every label but 'scenario' to the direct retrieval
TakesDirectPath_unless_scenario(label) == label # SCENARIO

\* line 137: classify_query(query) == "direct"
TakesDirectPath(label) == label = DIRECT

\* line 145: [scenario_data.get("primary_offense", query)]
\*           + scenario_data.get("related_offenses", [])
Offenses(data, q) ==
    <<IF data.has_primary THEN data.primary_offense ELSE q>>
        \o data.related_offenses

\* the entries of the call log
CallOf(fn, key, k) == [fn |-> fn, key |-> key, k |-> k]

\* lines 147-150: the except block of the retrieval stage
RetrievalExcept ==
    /\ rla_results' = EmptyResults
    /\ retrieval_error' = TRUE
    /\ pc' = "retrieved"

\* the queries run_legal_analysis is called with
PipelineQueries ==
    { <<"S","e","c","t","i","o","n"," ","3","0","2"," ","o","f"," ","B","N","S">>,
      <<"1","8","6","0">>,
      <<"b","a","i","l">>,
      <<"U+00A7"," ","4","5"," ","e","v","i","d","e","n","c","e">>,
      <<"4","5"," ","o","f"," ","b","s","a">> }

PipelineInit ==
    /\ query \in PipelineQueries
    /\ cq = NotRun
    /\ acts = [ran |-> FALSE, list |-> << >>]
    /\ ExpandIdle
    /\ RetrieveIdle
    /\ messages = <<[role |-> "user", content |-> query]>>
    /\ recent_queries = <<query>>
    /\ popped = << >>
    /\ pc = "start"
    /\ section_num = << >>
    /\ scenario_data = NoScenario
    /\ rla_results = EmptyResults
    /\ retrieval_error = FALSE
    /\ calls = << >>
    /\ analysis = << >>
    /\ generation = "none"
    /\ sections = << >>
    /\ sections_by_act = << >>
    /\ EmbedIdle

\* lines 126-133: a section number is found, and looked up in all acts
StartSectionLookup ==
    /\ pc = "start"
    /\ normalize_section_query(query) # << >>
    /\ section_num' = normalize_section_query(query)
    /\ Call_retrieve_direct(SectionKey(section_num'), 5)
    /\ calls' = Append(calls, CallOf("retrieve_direct", SectionKey(section_num'), 5))
    /\ pc' = "section_lookup"
    /\ UNCHANGED <<routerVars, expandVars, scenario_data, rla_results,
                   retrieval_error, citeVars>>
    /\ UNCHANGED <<sessionVars, embedVars>>

\* lines 126-137: no section number; classify_query raises, answers
\* "direct" (direct retrieval, lines 137-138), or answers anything else
ClassifyAndRoute ==
    /\ pc = "start"
    /\ normalize_section_query(query) = << >>
    /\ section_num' = << >>
    /\ \E o \in classify_query(query) :
          /\ cq' = [ran |-> TRUE, raised |-> o.raised, label |-> o.label,
                    calls |-> o.calls]
          /\ IF o.raised
             THEN /\ RetrievalExcept
                  /\ calls' = Append(calls, CallOf("classify_query", query, 0))
                  /\ UNCHANGED retrieveVars
             ELSE IF TakesDirectPath(o.label)
             THEN /\ Call_retrieve_direct(query, 5)
                  /\ calls' = calls \o <<CallOf("classify_query", query, 0),
                                         CallOf("retrieve_direct", query, 5)>>
                  /\ pc' = "direct"
                  /\ UNCHANGED <<rla_results, retrieval_error>>
             ELSE /\ pc' = "scenario"
                  /\ calls' = Append(calls, CallOf("classify_query", query, 0))
                  /\ UNCHANGED <<retrieveVars, rla_results, retrieval_error>>
    /\ UNCHANGED <<query, acts, expandVars, scenario_data, citeVars>>
    /\ UNCHANGED <<sessionVars, embedVars>>

\* lines 140-146: analyze_scenario raises, or its offenses are joined into
\* the key of a retrieval with n_results = 4
AnalyzeAndSearch ==
    /\ pc = "scenario"
    /\ \E o \in analyze_scenario(query) :
          IF o.raised
          THEN /\ RetrievalExcept
               /\ calls' = Append(calls, CallOf("analyze_scenario", query, 0))
               /\ UNCHANGED <<scenario_data, retrieveVars>>
          ELSE /\ scenario_data' = o.data
               /\ Call_retrieve_direct(JoinWords(Offenses(o.data, query)), 4)
               /\ calls' = calls \o
                     <<CallOf("analyze_scenario", query, 0),
                       CallOf("retrieve_direct",
                              JoinWords(Offenses(o.data, query)), 4)>>
               /\ pc' = "scenario_retrieval"
               /\ UNCHANGED <<rla_results, retrieval_error>>
    /\ UNCHANGED <<routerVars, expandVars, section_num, citeVars>>
    /\ UNCHANGED <<sessionVars, embedVars>>

\* run_legal_analysis waits for a call of retrieve_direct
InRetrieval ==
    pc \in {"section_lookup", "section_fallback", "direct", "scenario_retrieval"}

\* a section path that falls back whenever the lookup found fewer than two
\* documents
NeedsFallback_below_two(res) == Len(res.documents) < 2

\* line 134: not results["documents"]
NeedsFallback(res) == res.documents = << >>

\* lines 134-135: the section lookup returned no document, and the query
\* itself is searched with n_results = 3
SectionFallback ==
    /\ pc = "section_lookup"
    /\ rd_pc = "returned"
    /\ NeedsFallback(results)
    /\ Call_retrieve_direct(query, 3)
    /\ calls' = Append(calls, CallOf("retrieve_direct", query, 3))
    /\ pc' = "section_fallback"
    /\ UNCHANGED <<routerVars, expandVars, section_num, scenario_data,
                   rla_results, retrieval_error, citeVars>>
    /\ UNCHANGED <<sessionVars, embedVars>>

\* the frame of a call of retrieve_direct is left
Leave_retrieve_direct ==
    /\ rd_pc' = "idle"
    /\ query_text' = << >>
    /\ query_vector' = << >>
    /\ rd_trace' = NoTrace
    /\ n_results' = 0
    /\ act_indexes' = << >>
    /\ rd_i' = 1
    /\ rd_rank' = 0
    /\ results' = EmptyResults
    /\ hitlog' = << >>
    /\ failed' = [n \in AllIndexes |-> "no"]

\* lines 133-146: a retrieval returned, and its result is kept
RetrievalDone ==
    /\ InRetrieval
    /\ rd_pc = "returned"
    /\ ~(pc = "section_lookup" /\ NeedsFallback(results))
    /\ rla_results' = results
    /\ pc' = "retrieved"
    /\ Leave_retrieve_direct
    /\ UNCHANGED <<routerVars, expandVars, section_num, scenario_data,
                   retrieval_error, calls, citeVars>>
    /\ UNCHANGED <<sessionVars, embedVars>>

\* lines 147-150: a retrieval raised (the embedding failed)
RetrievalRaised ==
    /\ InRetrieval
    /\ rd_pc = "raised"
    /\ RetrievalExcept
    /\ Leave_retrieve_direct
    /\ UNCHANGED <<routerVars, expandVars, section_num, scenario_data,
                   calls, citeVars>>
    /\ UNCHANGED <<sessionVars, embedVars>>

(***************************************************************************)
(* chat_ui.py: run_legal_analysis from the response on (lines 155-208),    *)
(* and render_message (lines 217-233).                                     *)
(***************************************************************************)
\* texts generate_response may return: one that names no section, one that
\* names a section by its stored id, one that names a section without the
\* leading zero of its stored id
AnalysisTexts ==
    { <<"N","o"," ","s","e","c","t","i","o","n"," ","4","5"," ","f","i","t","s">>,
      <<"S","e","c","t","i","o","n"," ","3","0","2"," ","a","p","p","l","i","e","s">>,
      <<"s","e","e"," ","B","N","S"," ","S","e","c","t","i","o","n"," ","4","5",".">> }

\* extract_section_numbers: re.findall(r'BNS Section (\d+)|Section (\d+)'),
\* the digits after every 'Section ' that digits follow
extract_section_numbers(text) ==
    { DigitsFrom(text, i + Len(SECTION_PREFIX)) :
          i \in { m \in 1..Len(text) :
                     /\ HasAt(text, m, SECTION_PREFIX)
                     /\ m + Len(SECTION_PREFIX) <= Len(text)
                     /\ IsDigit(text[m + Len(SECTION_PREFIX)]) } }

\* dict.get(key, default)
Get(meta, key, default) == IF key \in DOMAIN meta THEN meta[key] ELSE default

UNKNOWN == <<"U","N","K","N","O","W","N">>

\* safe_display_metadata
safe_display_metadata(meta) ==
    IF DOMAIN meta = {} THEN << >>
    ELSE [section |-> Get(meta, "section", << >>),
          section_display |->
              Get(meta, "section_display",
                  SECTION_PREFIX \o Get(meta, "section", << >>)),
          heading |-> Get(meta, "heading", << >>),
          act |-> Upper(Get(meta, "act", UNKNOWN)),
          chapter |-> Get(meta, "chapter", << >>)]

\* lines 178-188: the citation made of one metadata record
Citation(record) ==
    LET meta == safe_display_metadata(record)
        sec_num == Get(meta, "section", << >>)
    IN  [section |-> sec_num,
         display |-> Get(meta, "section_display", SECTION_PREFIX \o sec_num),
         heading |-> Get(meta, "heading", << >>),
         act |-> Get(meta, "act", UNKNOWN)]

\* a citation rule that needs the section to be mentioned
Cited_only_when_mentioned(mentioned_sections, sec_num) ==
    sec_num \in mentioned_sections

\* line 182: (not mentioned_sections) or (sec_num in mentioned_sections)
Cited(mentioned_sections, sec_num) ==
    mentioned_sections = {} \/ sec_num \in mentioned_sections

\* lines 171-188: the loop over meta_list
RECURSIVE CitationsOf(_, _)
CitationsOf(meta_list, mentioned_sections) ==
    IF meta_list = << >> THEN << >>
    ELSE LET c == Citation(Head(meta_list)) IN
         (IF Cited(mentioned_sections, c.section) THEN <<c>> ELSE << >>)
             \o CitationsOf(Tail(meta_list), mentioned_sections)

\* a grouping that puts each citation at the front of its group
GroupByAct_newest_first(secs, n) ==
    LET acts_seen == {secs[i].act : i \in 1..n}
        first(a) == CHOOSE i \in 1..n :
                        secs[i].act = a /\ \A m \in 1..(i - 1) : secs[m].act # a
        ordered == CHOOSE f \in [1..Cardinality(acts_seen) -> acts_seen] :
                       \A g, h \in 1..Cardinality(acts_seen) :
                           g < h => first(f[g]) < first(f[h])
        rev(a) == LET pos == {i \in 1..n : secs[i].act = a}
                      at(j) == CHOOSE i \in pos :
                                   Cardinality({m \in pos : m >= i}) = j
                  IN  [j \in 1..Cardinality(pos) |->
                          secs[at(j)].display \o <<":", " ">> \o secs[at(j)].heading]
    IN  [g \in 1..Cardinality(acts_seen) |->
            [act |-> ordered[g], entries |-> rev(ordered[g])]]

\* f"{sec['display']}: {sec['heading']}"
SectionText(sec) == sec.display \o <<":", " ">> \o sec.heading

\* lines 222-227: sections_by_act after the first n citations, the groups in
\* the order their acts were first seen
RECURSIVE GroupByAct(_, _)
GroupByAct(secs, n) ==
    IF n = 0 THEN << >>
    ELSE LET groups == GroupByAct(secs, n - 1)
             sec == secs[n]
         IN  IF \E g \in 1..Len(groups) : groups[g].act = sec.act
             THEN LET g == CHOOSE g \in 1..Len(groups) :
                               groups[g].act = sec.act
                  IN  [groups EXCEPT
                          ![g].entries = Append(@, SectionText(sec))]
             ELSE Append(groups,
                         [act |-> sec.act, entries |-> <<SectionText(sec)>>])

\* messages an exception of the generation request may carry: one without
\* and one with a section reference
ErrorMessages ==
    { <<"t","i","m","e","d"," ","o","u","t">>,
      <<"c","u","t"," ","a","t"," ","S","e","c","t","i","o","n"," ","3","0","2">> }

\* f"Error generating response: {str(e)}"
ErrorText(message) ==
    <<"E","r","r","o","r"," ","g","e","n","e","r","a","t","i","n","g"," ",
      "r","e","s","p","o","n","s","e",":"," ">> \o message

\* generate_response: the outcomes of one call.  The model answers with a
\* text or with a message that has no content (line 54 returns None), or the
\* request raises and the except block returns the error text (lines 55-56)
generate_response(prompt, context) ==
    { [how |-> "text", text |-> t] : t \in AnalysisTexts }
    \cup { [how |-> "error", text |-> ErrorText(m)] : m \in ErrorMessages }
    \cup { [how |-> "no content", text |-> << >>] }

\* a generate_response whose exception leaves run_legal_analysis
AfterGenerationError_reraise == "rla_raised"

\* chat_app.py:55-56: the except block returns, and line 156 goes on
AfterGenerationError == "generated"

\* lines 155-156: generate_response returns
GenerateResponse ==
    /\ pc = "retrieved"
    /\ \E o \in generate_response(query, rla_results.documents) :
          /\ analysis' = o.text
          /\ generation' = o.how
          /\ pc' = IF o.how = "error" THEN AfterGenerationError
                   ELSE "generated"
    /\ UNCHANGED <<routerVars, expandVars, retrieveVars, section_num,
                   scenario_data, rla_results, retrieval_error, calls,
                   sections, sections_by_act>>
    /\ UNCHANGED <<sessionVars, embedVars>>

\* lines 160-188: the citation list is built, and run_legal_analysis returns;
\* with metadata to cite and no text, re.findall raises at line 170
BuildCitations ==
    /\ pc = "generated"
    /\ IF rla_results.metadatas # << >> /\ generation = "no content"
       THEN /\ pc' = "rla_raised"
            /\ UNCHANGED sections
       ELSE /\ sections' =
                  IF rla_results.metadatas # << >>
                  THEN CitationsOf(rla_results.metadatas,
                                   extract_section_numbers(analysis))
                  ELSE << >>
            /\ pc' = "analysed"
    /\ UNCHANGED <<routerVars, expandVars, retrieveVars, section_num,
                   scenario_data, rla_results, retrieval_error, calls,
                   analysis, generation, sections_by_act>>
    /\ UNCHANGED <<sessionVars, embedVars>>

\* str(doc)[:200] + "..."
Preview(doc) == <<"first 200 characters of", doc, "...">>

\* lines 190-198: the previews of the first three documents
ContextPreview(docs) ==
    [i \in 1..(IF Len(docs) < 3 THEN Len(docs) ELSE 3) |-> Preview(docs[i])]

\* lines 204-207: the two rounded durations, in milliseconds
Timing == [retrieval |-> "ms", generation |-> "ms"]

\* lines 200-208: the record run_legal_analysis returns
Response ==
    [analysis |-> analysis, sections |-> sections,
     context_preview |-> ContextPreview(rla_results.documents),
     timing |-> Timing]

\* lines 269-275: the message made of a response
AssistantMessage(response) ==
    [role |-> "assistant", content |-> response.analysis,
     sections |-> response.sections,
     context_preview |-> response.context_preview,
     timing |-> response.timing]

\* lines 279-282: the message of the except block
ApologyMessage ==
    [role |-> "assistant",
     content |-> <<"I couldn't process that request. Please try rephrasing or ask about a different legal topic.">>]

\* lines 267-275: run_legal_analysis returned, the answer is appended
ProcessQueryAppend ==
    /\ pc = "analysed"
    /\ messages' = Append(messages, AssistantMessage(Response))
    /\ pc' = "answered"
    /\ UNCHANGED <<routerVars, expandVars, retrieveVars, section_num,
                   scenario_data, rla_results, retrieval_error, calls,
                   citeVars, recent_queries, popped, embedVars>>

\* lines 277-282: run_legal_analysis raised, the apology is appended
ProcessQueryExcept ==
    /\ pc = "rla_raised"
    /\ messages' = Append(messages, ApologyMessage)
    /\ pc' = "apologised"
    /\ UNCHANGED <<routerVars, expandVars, retrieveVars, section_num,
                   scenario_data, rla_results, retrieval_error, calls,
                   citeVars, recent_queries, popped, embedVars>>

\* lines 215-233: render_message groups the citations of the answer by act
RenderMessage ==
    /\ pc = "answered"
    /\ LET msg == messages[Len(messages)] IN
       sections_by_act' =
          IF msg.role = "assistant" /\ msg.sections # << >>
          THEN GroupByAct(msg.sections, Len(msg.sections))
          ELSE << >>
    /\ pc' = "rendered"
    /\ UNCHANGED <<routerVars, expandVars, retrieveVars, section_num,
                   scenario_data, rla_results, retrieval_error, calls,
                   analysis, generation, sections>>
    /\ UNCHANGED <<sessionVars, embedVars>>

PipelineNext ==
    \/ StartSectionLookup
    \/ ClassifyAndRoute
    \/ AnalyzeAndSearch
    \/ SectionFallback
    \/ RetrievalDone
    \/ RetrievalRaised
    \/ Embed
    \/ EmbedFails
    \/ GetIndexFails
    \/ QueryFails
    \/ QueryAnswers
    \/ ReadHit
    \/ ReadHitMalformed
    \/ HitsEnd
    \/ Return
    \/ GenerateResponse
    \/ BuildCitations
    \/ ProcessQueryAppend
    \/ ProcessQueryExcept
    \/ RenderMessage

SpecPipeline == PipelineInit /\ [][PipelineNext]_vars

(***************************************************************************)
(* chat_ui.py: the session.  A script run handles one event to its end: a  *)
(* submitted query, a click on a recent query, or a click on New Chat.     *)
(* run_legal_analysis is taken by its outcomes.                            *)
(***************************************************************************)
\* the history length up to which queries are submitted
MaxMessages == 4

\* line 257: the length at which the oldest recent query is dropped
MAX_RECENT_QUERIES == 10

\* the queries a user submits, and two that are blank
SessionQueries == { <<"b","a","i","l">>, <<"1","8","6","0">> }
BlankQueries == { << >>, <<" ">> }

\* how run_legal_analysis may end: with an answer, with the error text of a
\* failed generation, or by raising
RunOutcomes == {"answer", "generation failed", "raised"}

\* the record run_legal_analysis returns for a query, by outcome
ResponseOf(q, outcome) ==
    [analysis |-> IF outcome = "answer" THEN <<"analysis of">> \o q
                  ELSE ErrorText(<<"t","i","m","e","d"," ","o","u","t">>),
     sections |-> << >>,
     context_preview |-> << >>,
     timing |-> Timing]

\* an update that drops the newest entry of a full list
AddRecent_drops_newest(recent, q) ==
    IF recent = << >> \/ recent[Len(recent)] # q
    THEN Append(IF Len(recent) >= MAX_RECENT_QUERIES
                THEN SubSeq(recent, 1, Len(recent) - 1) ELSE recent, q)
    ELSE recent

\* lines 254-259: the recent queries after a query
AddRecent(recent, q) ==
    IF recent = << >> \/ recent[Len(recent)] # q
    THEN Append(IF Len(recent) >= MAX_RECENT_QUERIES
                THEN Tail(recent) ELSE recent, q)
    ELSE recent

\* line 258 runs for the query
Pops(recent, q) ==
    /\ recent = << >> \/ recent[Len(recent)] # q
    /\ Len(recent) >= MAX_RECENT_QUERIES

\* an except block that reports the error and appends nothing
Answered_without_apology(history, q, outcome) ==
    IF outcome = "raised" THEN history
    ELSE Append(history, AssistantMessage(ResponseOf(q, outcome)))

\* lines 266-282: the history after run_legal_analysis ended
Answered(history, q, outcome) ==
    IF outcome = "raised" THEN Append(history, ApologyMessage)
    ELSE Append(history, AssistantMessage(ResponseOf(q, outcome)))

\* lines 248-282: process_query(q)
process_query(q) ==
    IF Strip(q) = << >>
    THEN UNCHANGED sessionVars
    ELSE /\ recent_queries' = AddRecent(recent_queries, q)
         /\ popped' = IF Pops(recent_queries, q) THEN Head(recent_queries)
                      ELSE popped
         /\ \E outcome \in RunOutcomes :
               messages' =
                   Answered(Append(messages,
                                   [role |-> "user", content |-> q]),
                            q, outcome)

SessionInit ==
    /\ RouterIdle
    /\ ExpandIdle
    /\ RetrieveIdle
    /\ PipelineIdle
    /\ SessionIdle
    /\ EmbedIdle

\* lines 308-310: the user submits a query
SubmitQuery ==
    /\ Len(messages) < MaxMessages
    /\ \E q \in SessionQueries \cup BlankQueries : process_query(q)
    /\ UNCHANGED <<routerVars, expandVars, retrieveVars, pipelineVars,
                   embedVars>>

\* lines 65-72: the user clicks one of the last six recent queries
ClickRecentQuery ==
    /\ Len(messages) < MaxMessages
    /\ \E i \in 1..Len(recent_queries) :
          /\ i > Len(recent_queries) - 6
          /\ process_query(recent_queries[i])
    /\ UNCHANGED <<routerVars, expandVars, retrieveVars, pipelineVars,
                   embedVars>>

\* lines 50-52: the user clicks New Chat
NewChat ==
    /\ messages' = << >>
    /\ UNCHANGED <<routerVars, expandVars, retrieveVars, pipelineVars,
                   recent_queries, popped, embedVars>>

SessionNext ==
    \/ SubmitQuery
    \/ ClickRecentQuery
    \/ NewChat

SpecSession == SessionInit /\ [][SessionNext]_vars

(***************************************************************************)
(* embed_to_endee.py: embed_act on one chunk file.                         *)
(***************************************************************************)
\* the largest number of chunks of a file
MaxChunks == 101

\* line 56
batch_size == 50

\* lines 65-75: the item made of a chunk
Item(chunk) == <<"item of", chunk>>

\* a test that lets the batch grow one item beyond batch_size
BatchFull_when_above(payload) == Len(payload) > batch_size

\* line 79: len(batch_payload) >= batch_size
BatchFull(payload) == Len(payload) >= batch_size

EmbedInit ==
    /\ RouterIdle
    /\ ExpandIdle
    /\ RetrieveIdle
    /\ PipelineIdle
    /\ SessionIdle
    /\ em_pc = "start"
    /\ chunks \in {[k \in 1..n |-> k] : n \in 0..MaxChunks}
    /\ em_i = 1
    /\ batch_payload = << >>
    /\ upserted = << >>

\* lines 27-29: there is no chunk file
EmbedFileMissing ==
    /\ em_pc = "start"
    /\ em_pc' = "skipped"
    /\ UNCHANGED <<routerVars, expandVars, retrieveVars, pipelineVars,
                   sessionVars, chunks, em_i, batch_payload, upserted>>

\* lines 31-59: the index is created or exists, and the chunks are loaded
EmbedLoad ==
    /\ em_pc = "start"
    /\ em_pc' = "loop"
    /\ UNCHANGED <<routerVars, expandVars, retrieveVars, pipelineVars,
                   sessionVars, chunks, em_i, batch_payload, upserted>>

\* lines 49, 62, 81, 86: get_index, encode or upsert raises, and nothing
\* catches it
EmbedRaises ==
    /\ em_pc \in {"start", "loop"}
    /\ em_pc' = "raised"
    /\ UNCHANGED <<routerVars, expandVars, retrieveVars, pipelineVars,
                   sessionVars, chunks, em_i, batch_payload, upserted>>

\* lines 61-82: one turn of the loop
EmbedChunk ==
    /\ em_pc = "loop"
    /\ em_i <= Len(chunks)
    /\ LET payload == Append(batch_payload, Item(chunks[em_i])) IN
       IF BatchFull(payload)
       THEN /\ upserted' = Append(upserted, payload)
            /\ batch_payload' = << >>
       ELSE /\ batch_payload' = payload
            /\ UNCHANGED upserted
    /\ em_i' = em_i + 1
    /\ UNCHANGED <<routerVars, expandVars, retrieveVars, pipelineVars,
                   sessionVars, em_pc, chunks>>

\* lines 84-88: the rest is sent, and embed_act returns
EmbedFlush ==
    /\ em_pc = "loop"
    /\ em_i > Len(chunks)
    /\ upserted' = IF batch_payload # << >>
                   THEN Append(upserted, batch_payload) ELSE upserted
    /\ em_pc' = "done"
    /\ UNCHANGED <<routerVars, expandVars, retrieveVars, pipelineVars,
                   sessionVars, chunks, em_i, batch_payload>>

EmbedNext ==
    \/ EmbedFileMissing
    \/ EmbedLoad
    \/ EmbedRaises
    \/ EmbedChunk
    \/ EmbedFlush

SpecEmbed == EmbedInit /\ [][EmbedNext]_vars

(***************************************************************************)
(* Properties.                                                             *)
(***************************************************************************)
\* C1: when expand_offenses returns, the returned terms contain every input
\* offense verbatim, whatever was cached and whichever model calls failed.
C1_OutputContainsEveryInput ==
    ex_pc = "returned" =>
        \A i \in 1..Len(offense_list) : offense_list[i] \in expanded

\* C2: at every step of retrieve_direct and after it, also after an index's
\* try block raised while its hits were read, documents and metadatas have
\* the same length, and entry i of each comes from the same hit.
C2_DocumentsAndMetadatasAligned ==
    /\ Len(results.documents) = Len(results.metadatas)
    /\ Len(results.documents) = Len(hitlog)
    /\ \A i \in 1..Len(hitlog) :
          /\ results.documents[i] = hitlog[i].document
          /\ DOMAIN results.metadatas[i]
                 = {"section", "section_display", "heading", "act"}
          /\ results.metadatas[i].section = hitlog[i].section
          /\ results.metadatas[i].section_display = hitlog[i].section_display
          /\ results.metadatas[i].heading = hitlog[i].heading
          /\ results.metadatas[i].act = hitlog[i].act

\* a call returned with two documents kept although an index raised while
\* its hits were read
C2_Witness ==
    /\ rd_pc = "returned"
    /\ Len(results.documents) >= 2
    /\ \E n \in Range(act_indexes) : failed[n] = "hit"

\* C3: retrieve_direct raises only before any index is tried (the embedding
\* failed), never because an index lookup or query failed; and when the
\* lookup or query of every target index failed, it returns the empty pair.
C3_IndexFailuresAreAbsorbed ==
    /\ rd_pc = "raised" =>
          rd_i = 1 /\ \A n \in AllIndexes : failed[n] = "no"
    /\ (rd_pc = "returned" /\ \A n \in Range(act_indexes) : failed[n] = "call")
          => results = EmptyResults

\* a call over all five indexes returned after every lookup or query failed
C3_Witness ==
    /\ rd_pc = "returned"
    /\ Len(act_indexes) = Len(ALL_ACTS)
    /\ \A n \in Range(act_indexes) : failed[n] = "call"
    /\ results = EmptyResults

\* C4: an index whose try block raised, be it at the lookup, at the query or
\* while its hits were read, contributes no document and no metadata record
\* to the returned result.
C4_FailedIndexContributesNothing ==
    rd_pc = "returned" =>
        \A n \in Range(act_indexes) :
            failed[n] # "no" =>
                \A i \in 1..Len(results.metadatas) :
                    results.metadatas[i].act # StoredAct(n)

\* C5: on a query the Section-Query Detector fires for, classify_query
\* returns 'section' and calls the language model zero times.
C5_SectionQueryShortCircuits ==
    (cq.ran /\ is_section_query(query)) =>
        /\ ~cq.raised
        /\ cq.label = SECTION_WORD
        /\ cq.calls = 0

\* classify_query ran on a query that states "<number> of <corpus code>"
C5_Witness ==
    /\ cq.ran
    /\ is_section_query(query)
    /\ query = <<"w","h","a","t"," ","i","s"," ","4","5"," ","o","f"," ","B","S","A">>
    /\ cq.calls = 0

\* C6: whatever the language model answers, the value classify_query returns
\* is one of 'section', 'direct' and 'scenario'.
C6_LabelIsOneOfThree ==
    (cq.ran /\ ~cq.raised) => cq.label \in {SECTION_WORD, DIRECT, SCENARIO}

\* run_legal_analysis called fn
Called(fn) == \E i \in 1..Len(calls) : calls[i].fn = fn

\* run_legal_analysis called retrieve_direct with n_results = k
RetrievedWith(k) ==
    \E i \in 1..Len(calls) : calls[i].fn = "retrieve_direct" /\ calls[i].k = k

\* C7: when the classification call raises, the retrieval stage goes on as
\* for 'scenario': analyze_scenario is called, and the stage does not end in
\* its error handler with the empty result.
C7_ClassifierFailureMeansScenario ==
    (pc = "retrieved" /\ cq.ran /\ cq.raised) =>
        Called("analyze_scenario") /\ ~retrieval_error

\* C8: once classify_query has returned a label other than 'direct' (the
\* query has no normalized section number), run_legal_analysis is about to
\* call analyze_scenario or has called it, and never retrieves with K = 5.
C8_OtherLabelsTakeScenarioPath ==
    (cq.ran /\ ~cq.raised /\ cq.label # DIRECT) =>
        /\ section_num = << >>
        /\ pc = "scenario" \/ Called("analyze_scenario")
        /\ ~RetrievedWith(5)

\* an unrecognized label went through analyze_scenario to a retrieval with
\* K = 4
C8_Witness ==
    /\ pc = "retrieved"
    /\ cq.label = <<"u","n","s","u","r","e">>
    /\ Called("analyze_scenario")
    /\ RetrievedWith(4)
    /\ ~retrieval_error

\* a keyword of corpus a occurs in the lower-cased text
KeywordOccurs(lowered, a) ==
    \E kw \in act_keywords(a) :
        \E i \in 1..Len(lowered) :
            /\ i + Len(kw) - 1 <= Len(lowered)
            /\ SubSeq(lowered, i, i + Len(kw) - 1) = kw

\* the corpora with a keyword in q, case-insensitively
Matching(q) ==
    LET lowered == [i \in 1..Len(q) |-> LowerChar(q[i])] IN
    {a \in Range(ALL_ACTS) : KeywordOccurs(lowered, a)}

\* C9 as stated: the result is the set of matching corpora, and it is all
\* five corpora exactly when no corpus keyword occurs.
C9_AllFiveExactlyWhenNoKeyword ==
    acts.ran =>
        /\ Matching(query) # {} => Range(acts.list) = Matching(query)
        /\ Range(acts.list) = Range(ALL_ACTS) <=> Matching(query) = {}

\* C9, amended: the result is the set of matching corpora when there is one,
\* and all five corpora when no corpus keyword occurs (all five are returned
\* as well when every corpus has a keyword in the query); no corpus is listed
\* twice.
C9_MatchingCorporaOrAllFive ==
    acts.ran =>
        /\ Matching(query) # {} => Range(acts.list) = Matching(query)
        /\ Matching(query) = {} => Range(acts.list) = Range(ALL_ACTS)
        /\ Cardinality(Range(acts.list)) = Len(acts.list)

\* the Act Detector ran on a query that names every corpus
C9_Witness ==
    /\ acts.ran
    /\ Matching(query) = Range(ALL_ACTS)
    /\ Range(acts.list) = Range(ALL_ACTS)

\* the indexes the current call of retrieve_direct has tried so far
Tried ==
    SubSeq(act_indexes, 1, IF rd_pc = "hits" THEN rd_i ELSE rd_i - 1)

\* C10: every call of retrieve_direct, on the section, section-fallback,
\* direct and scenario paths, targets a non-empty list of indexes, each the
\* index of one of the five corpora, none listed twice, and tries each of
\* them at most once, in that order.
C10_TargetsNonEmptySubsetOfCorpora ==
    rd_pc # "idle" =>
        /\ act_indexes # << >>
        /\ Range(act_indexes) \subseteq AllIndexes
        /\ Cardinality(Range(act_indexes)) = Len(act_indexes)
        /\ Len(Tried) <= Len(act_indexes)
        /\ Cardinality(Range(Tried)) = Len(Tried)
        /\ rd_pc = "returned" => Tried = act_indexes

\* the section fallback searched one index only, and returned
C10_Witness ==
    /\ pc = "section_fallback"
    /\ rd_pc = "returned"
    /\ act_indexes = <<"bns_sections">>
    /\ RetrievedWith(5)
    /\ RetrievedWith(3)

\* C11: for every normalized section number N, the section lookup of
\* run_legal_analysis searches with the key 'Section N' and targets the
\* indexes of all five corpora.
C11_SectionLookupTargetsAllFive ==
    pc = "section_lookup" =>
        /\ query_text = SectionKey(section_num)
        /\ Range(act_indexes) = AllIndexes
        /\ Len(act_indexes) = Len(ALL_ACTS)

\* C12: on the section path the query text itself is searched if and only
\* if the section lookup returned no document: a lookup that returned nothing
\* is followed by the search of the query, a lookup that returned a document
\* becomes the result as it is, with no further retrieval, and the search of
\* the query is entered from nowhere else and followed by no third search.
C12_FallbackIffLookupEmpty ==
    [][ /\ (pc = "section_lookup" /\ rd_pc = "returned") =>
              IF results.documents = << >>
              THEN /\ pc' = "section_fallback"
                   /\ query_text' = query
                   /\ rd_pc' = "embed"
                   /\ Len(calls') = Len(calls) + 1
              ELSE /\ pc' = "retrieved"
                   /\ rla_results' = results
                   /\ calls' = calls
        /\ (pc' = "section_fallback" /\ pc # "section_fallback") =>
              /\ pc = "section_lookup"
              /\ rd_pc = "returned"
              /\ results.documents = << >>
        /\ pc = "section_fallback" =>
              /\ calls' = calls
              /\ pc' = "section_fallback" => query_text' = query_text
              /\ pc' \in {"section_fallback", "retrieved"}
      ]_vars

\* a section lookup found documents, which are the result of the retrieval
\* stage after one retrieval
C12_Witness ==
    /\ pc = "retrieved"
    /\ section_num # << >>
    /\ ~retrieval_error
    /\ rla_results.documents # << >>
    /\ Len(calls) = 1

\* C13: a query the Section-Query Detector fires for is routed to the
\* section lookup: run_legal_analysis never classifies it, never analyses it
\* as a scenario and never retrieves it directly.
C13_DetectedSectionQueriesAreLookedUp ==
    (is_section_query(query) /\ pc # "start") =>
        /\ section_num # << >>
        /\ pc \notin {"scenario", "scenario_retrieval", "direct"}
        /\ ~Called("classify_query")
        /\ ~Called("analyze_scenario")

\* run_legal_analysis called retrieve_direct with the search key key
RetrievedKey(key) ==
    \E i \in 1..Len(calls) :
        calls[i].fn = "retrieve_direct" /\ calls[i].key = key

\* C14: when analyze_scenario has raised, the retrieval stage ends with the
\* result of a retrieval whose key is the query text, not in its error
\* handler.
C14_ScenarioFailureFallsBackToQuery ==
    (pc = "retrieved" /\ Called("analyze_scenario")
        /\ scenario_data = NoScenario) =>
        RetrievedKey(query) /\ ~retrieval_error

\* the corpora the Act Detector is to return for q
Detected(q) == IF Matching(q) = {} THEN Range(ALL_ACTS) ELSE Matching(q)

\* C15: whenever analyze_scenario has returned, the relevant_acts of its
\* result is non-empty: it is the model's list when the model gave a
\* non-empty one, and the Act Detector's result for the scenario text when
\* the parsed object has the key missing or empty; the other keys are the
\* model's.
C15_RelevantActsNeverEmpty ==
    scenario_data # NoScenario =>
        /\ scenario_data.has_acts
        /\ scenario_data.relevant_acts # << >>
        /\ \E r \in ScenarioReplies :
              /\ scenario_data.has_primary = r.has_primary
              /\ scenario_data.primary_offense = r.primary_offense
              /\ scenario_data.related_offenses = r.related_offenses
              /\ IF r.has_acts /\ r.relevant_acts # << >>
                 THEN scenario_data.relevant_acts = r.relevant_acts
                 ELSE /\ Range(scenario_data.relevant_acts) = Detected(query)
                      /\ Len(scenario_data.relevant_acts)
                             = Cardinality(Detected(query))

\* the model's object had no relevant_acts, and the detector found the one
\* corpus the scenario text names
C15_Witness ==
    /\ pc = "scenario_retrieval"
    /\ ~scenario_data.has_primary
    /\ query = <<"4","5"," ","o","f"," ","b","s","a">>
    /\ scenario_data.relevant_acts = <<"bsa">>

\* C16: on the scenario path expand_offenses has been called and has returned
\* when the retrieval starts, and the search key holds every expanded term.
C16_ScenarioKeyIsExpanded ==
    pc = "scenario_retrieval" =>
        /\ Called("expand_offenses")
        /\ ex_pc = "returned"
        /\ \A t \in expanded : Contains(query_text, t)

\* C17: on the scenario path the indexes searched are those of the relevant
\* acts of the scenario analysis, whatever keywords the search key holds.
C17_ScenarioSearchesRelevantActs ==
    pc = "scenario_retrieval" =>
        Range(act_indexes) =
            {index_name(scenario_data.relevant_acts[i]) :
                 i \in 1..Len(scenario_data.relevant_acts)}

\* the terms entry i of offense_list may have put into expanded
Contributions(i) ==
    LET offense == offense_list[i] IN
    IF i \in ex_failed THEN { {offense} }
    ELSE IF Lower(offense) \in {THEFT, RIOT}
    THEN { OFFENSE_CACHE(Lower(offense)) }
    ELSE { Variations(offense, content) : content \in ExpanderReplies }

\* C18: a model failure on one offense never aborts expand_offenses: the call
\* is in its loop or has returned, and when it has returned every entry of
\* the list was processed, an entry whose model call failed put its own term
\* and nothing else into the result, and every other entry put in what its
\* cache entry or its model reply gives.
C18_ModelFailureKeepsTheTerm ==
    /\ ex_pc \in {"idle", "loop", "returned"}
    /\ ex_pc = "returned" =>
          /\ ex_i = Len(offense_list) + 1
          /\ ex_failed \subseteq 1..Len(offense_list)
          /\ \A i \in 1..Len(offense_list) :
                \E terms \in Contributions(i) : terms \subseteq expanded
          /\ \A t \in expanded :
                \E i \in 1..Len(offense_list) :
                    \E terms \in Contributions(i) : t \in terms

\* the model call of the first offense failed, the second offense came from
\* the cache, and the call returned both contributions
C18_Witness ==
    /\ ex_pc = "returned"
    /\ offense_list = << <<"f","r","a","u","d">>, RIOT >>
    /\ ex_failed = {1}
    /\ expanded = { <<"f","r","a","u","d">> } \cup OFFENSE_CACHE(RIOT)

\* C19: the citations of one answer, as run_legal_analysis lists them and
\* render_message groups them, hold no (display, heading) pair twice within
\* the group of an act.
C19_NoDuplicateCitationInGroup ==
    pc = "rendered" =>
        /\ \A i, j \in 1..Len(sections) :
              (i # j /\ sections[i].act = sections[j].act) =>
                  <<sections[i].display, sections[i].heading>>
                      # <<sections[j].display, sections[j].heading>>
        /\ \A g \in 1..Len(sections_by_act) :
              \A i, j \in 1..Len(sections_by_act[g].entries) :
                  i # j => sections_by_act[g].entries[i]
                               # sections_by_act[g].entries[j]

PositionsOf(a) == {i \in 1..Len(sections) : sections[i].act = a}

\* the j-th of the positions of act a
PositionOf(a, j) ==
    CHOOSE i \in PositionsOf(a) :
        Cardinality({m \in PositionsOf(a) : m <= i}) = j

\* the first position of act a
FirstOf(a) == PositionOf(a, 1)

\* C21: in the grouped rendering there is one group per act of the citation
\* list, the groups are in the order in which their acts first occur in the
\* list, and a group holds the citations of its act in the order of the
\* list, which is the order of their records in the retrieval result.
C21_GroupsInFirstSeenOrder ==
    pc = "rendered" =>
        /\ {sections_by_act[g].act : g \in 1..Len(sections_by_act)}
               = {sections[i].act : i \in 1..Len(sections)}
        /\ \A g, h \in 1..Len(sections_by_act) :
              g < h => FirstOf(sections_by_act[g].act)
                           < FirstOf(sections_by_act[h].act)
        /\ \A g \in 1..Len(sections_by_act) :
              LET group == sections_by_act[g] IN
              /\ Len(group.entries) = Cardinality(PositionsOf(group.act))
              /\ \A j \in 1..Len(group.entries) :
                    LET sec == sections[PositionOf(group.act, j)] IN
                    group.entries[j]
                        = sec.display \o <<":", " ">> \o sec.heading

\* two acts were cited, the second with two different provisions
C21_Witness ==
    /\ pc = "rendered"
    /\ Len(sections_by_act) = 2
    /\ sections_by_act[1].act = <<"B","N","S">>
    /\ sections_by_act[2].act = <<"I","P","C">>
    /\ Len(sections_by_act[2].entries) = 2
    /\ sections_by_act[2].entries[1] # sections_by_act[2].entries[2]

\* C22: when the generation request failed, the citation list holds one
\* citation per retrieved metadata record, whatever the error text says.
C22_GenerationFailureCitesEverything ==
    (pc \in {"analysed", "rendered"} /\ generation = "error") =>
        /\ Len(sections) = Len(rla_results.metadatas)
        /\ \A i \in 1..Len(sections) :
              sections[i].section = rla_results.metadatas[i].section

\* the number a section string stands for: its leading digits without the
\* leading zeros ("045" and "45" are 45, "120A" is 120)
NumberOf(sec) ==
    LET d == DigitsFrom(sec, 1)
        z == CHOOSE k \in 0..Len(d) :
                 /\ \A m \in 1..k : d[m] = "0"
                 /\ (k = Len(d) \/ d[k + 1] # "0")
    IN  SubSeq(d, z + 1, Len(d))

\* C28: when the answer mentions a section number, every retrieved provision
\* whose section number equals a mentioned number numerically is cited.
C28_NumericallyEqualSectionsAreCited ==
    (pc \in {"analysed", "rendered"} /\ generation = "text"
        /\ extract_section_numbers(analysis) # {}) =>
        \A i \in 1..Len(rla_results.metadatas) :
            (\E m \in extract_section_numbers(analysis) :
                 NumberOf(m) = NumberOf(rla_results.metadatas[i].section)) =>
            \E j \in 1..Len(sections) :
                /\ sections[j].section = rla_results.metadatas[i].section
                /\ sections[j].act = Upper(rla_results.metadatas[i].act)

\* C25: within one call of retrieve_direct the search key is embedded at
\* most once, every index query is made after the embedding and with the
\* vector of the search key, the loop over the indexes is never reached
\* without an embedding, and a call that raised has queried no index and
\* holds no hit.
C25_EmbeddedOnceAndSharedByEveryQuery ==
    /\ rd_trace.encoded <= 1
    /\ rd_trace.queried \subseteq {Embedding(query_text)}
    /\ rd_trace.queried # {} => rd_trace.encoded = 1
    /\ rd_pc \in {"loop", "hits", "returned"} =>
          /\ rd_trace.encoded = 1
          /\ query_vector = Embedding(query_text)
    /\ rd_pc = "raised" =>
          /\ rd_trace.queried = {}
          /\ results = EmptyResults
          /\ \A n \in AllIndexes : failed[n] = "no"

C25_Witness ==
    /\ rd_pc = "returned"
    /\ Len(act_indexes) = 2
    /\ rd_trace = [encoded |-> 1, queried |-> {Embedding(query_text)}]
    /\ \E i, j \in 1..Len(hitlog) : hitlog[i].index # hitlog[j].index

\* the place of an index in the order of the corpora
CorpusPosition(index) ==
    CHOOSE k \in 1..Len(ALL_ACTS) : index_name(ALL_ACTS[k]) = index

\* C26: the indexes are searched in the order bns, ipc, crpc, cpc, bsa, and
\* the result lists hold the hits of an earlier index before those of a
\* later one and the hits of one index in the order the backend ranked them
\* (each hit comes from a later index than the one before it, or from the
\* same index at a higher rank).
C26_HitsInCorpusThenRankOrder ==
    /\ \A n \in 1..(Len(act_indexes) - 1) :
          CorpusPosition(act_indexes[n]) < CorpusPosition(act_indexes[n + 1])
    /\ Len(results.documents) = Len(hitlog)
    /\ \A i \in 1..Len(hitlog) :
          results.documents[i] = hitlog[i].document
    /\ \A i \in 1..(Len(hitlog) - 1) :
          \/ CorpusPosition(hitlog[i].index)
                 < CorpusPosition(hitlog[i + 1].index)
          \/ /\ hitlog[i].index = hitlog[i + 1].index
             /\ hitlog[i].rank < hitlog[i + 1].rank

C26_Witness ==
    /\ rd_pc = "returned"
    /\ Len(results.documents) = 3
    /\ hitlog[1].index = "crpc_sections"
    /\ hitlog[1].rank = 1
    /\ hitlog[2].index = "crpc_sections"
    /\ hitlog[2].rank = 2
    /\ hitlog[3].index = "bsa_sections"
    /\ failed["bsa_sections"] = "no"

C27_HistoryAlternates ==
    /\ Len(messages) % 2 = 0
    /\ \A i \in 1..Len(messages) :
          messages[i].role = IF i % 2 = 1 THEN "user" ELSE "assistant"
    /\ \A i \in 1..Len(messages) :
          i % 2 = 1 => Strip(messages[i].content) # << >>

C27_Witness ==
    /\ Len(messages) = 4
    /\ messages[2] = ApologyMessage
    /\ messages[3].role = "user"
    /\ messages[4].content = ErrorText(<<"t","i","m","e","d"," ","o","u","t">>)
    /\ recent_queries # << >>

\* C29: a step leaves at most ten recent queries, no two adjacent ones
\* equal; when it changes the list it appends one query to the old list, or
\* to the old list without its first entry when that list held ten.
C29_RecentQueriesKeepTheLastTen ==
    [][ /\ Len(recent_queries') <= MAX_RECENT_QUERIES
        /\ \A i \in 1..(Len(recent_queries') - 1) :
              recent_queries'[i] # recent_queries'[i + 1]
        /\ recent_queries' # recent_queries =>
              LET kept == IF Len(recent_queries) = MAX_RECENT_QUERIES
                          THEN Tail(recent_queries) ELSE recent_queries
              IN  /\ Len(recent_queries') = Len(kept) + 1
                  /\ SubSeq(recent_queries', 1, Len(kept)) = kept ]_vars

C29_Witness ==
    /\ Len(recent_queries) = MAX_RECENT_QUERIES
    /\ popped # << >>
    /\ popped # recent_queries[1]

\* the items of a list of batches, in order
RECURSIVE Flatten(_)
Flatten(batches) ==
    IF batches = << >> THEN << >>
    ELSE Head(batches) \o Flatten(Tail(batches))

\* C30: when embed_act is done, the batches handed to upsert hold, one after
\* the other, the item of every chunk once and in file order; no batch is
\* empty or longer than 50, and every batch but the last holds 50.
C30_EveryChunkUpsertedOnceInBatches ==
    em_pc = "done" =>
        /\ Flatten(upserted) = [k \in 1..Len(chunks) |-> Item(chunks[k])]
        /\ \A b \in 1..Len(upserted) :
              /\ Len(upserted[b]) >= 1
              /\ Len(upserted[b]) <= batch_size
              /\ b < Len(upserted) => Len(upserted[b]) = batch_size

C30_Witness ==
    /\ em_pc = "done"
    /\ Len(chunks) = 2 * batch_size + 1
    /\ Len(upserted) = 3
    /\ upserted[3] = <<Item(chunks[Len(chunks)])>>

=============================================================================
